---- MODULE Spec2Model ----
(***************************************************************************)
(* Result-pipeline orchestration of the vehicle-health dashboard.          *)
(*                                                                         *)
(* The state is the React state of four components:                        *)
(*   Dashboard               (src/unnamed/part_000)                        *)
(*   DegradationContributors (src/src/components/DegradationContributors)  *)
(*   Chatbot                 (src/unnamed/part_002)                        *)
(*   NearbyWorkshops         (src/unnamed/part_001)                        *)
(* plus the asynchronous calls that are in flight (each one is the closure *)
(* of the handler that issued it) and history variables that count the     *)
(* invocations of the collaborators of src/src/services/api.js.            *)
(*                                                                         *)
(* One action is one handler run, or one completion of an awaited call,    *)
(* together with the render it causes and the effects of that render       *)
(* (child effects before parent effects, effects of one component in       *)
(* declaration order).  State updates made in one synchronous run are      *)
(* batched into one render.                                                *)
(*                                                                         *)
(* Specifications:                                                         *)
(*   Spec           the components exactly as wired in the source:         *)
(*                  DegradationContributors never calls the                *)
(*                  onInsightsUpdate prop that Dashboard passes to it.     *)
(*   SpecDelivered  Dashboard together with a child that does report each  *)
(*                  successful insight fetch through onInsightsUpdate      *)
(*                  (Dashboard.handleAIInsightsUpdate), with the email     *)
(*                  button and the Chatbot.                                *)
(*   SpecUpload     the analysis, insight and upload steps of              *)
(*                  SpecDelivered alone.                                   *)
(*   SpecPipeline   SpecUpload with one more analysis.                     *)
(*   SpecNotify     successful analyses with the SMS alert, the upload     *)
(*                  and the email send.                                    *)
(*   SpecCalls      every collaborator call of Dashboard with its          *)
(*                  successes and failures.                                *)
(*   SpecSeverity   the severity classification of sendSmsAlert on every   *)
(*                  failure probability.                                   *)
(*   SpecFence      parseInsights on JSON-array texts inside code fences.  *)
(*   SpecParse      parseInsights and the render chain on raw texts.       *)
(*   SpecWorkshops  NearbyWorkshops: geolocation, then the workshop query. *)
(*   SpecChat       the upload steps that make the Chatbot ready and its   *)
(*                  initialisation.                                        *)
(*   SpecSend       the same for one insight text, with the conversation.  *)
(***************************************************************************)
EXTENDS Integers, FiniteSets, Sequences, TLC

\* ---------------------------------------------------------------- bounds
MaxAnalyses == 2      \* number of times Run Analysis is clicked
MaxFailureProb == 100 \* failure probabilities are percentages 0..MaxFailureProb
MaxBody == 4          \* tokens between the brackets of a JSON-array text
MaxRaw == 5           \* tokens of a raw insight text
MaxSends == 2         \* chat messages sent

Texts  == {1, 2}      \* insight texts the AI service may return
Phones == {0, 1}      \* phone field contents; 0 is the empty string ''

\* ------------------------------------------------------------ null values
NoPrediction == 0               \* useState(null)
NoInsights == [text |-> 0, for |-> 0]
NoUrl      == [pred |-> 0, insFor |-> 0]
IdleUpload == [uploading |-> FALSE, uploaded |-> FALSE, url |-> NoUrl]
NoChatReq  == [pred |-> 0, url |-> NoUrl]
NoEmailReq == [pred |-> 0, url |-> NoUrl]
SmsClosed  == [open |-> FALSE, success |-> FALSE, message |-> ""]
NoPosition == 0                 \* useState(null) of userLocation
Missing    == -1                \* kpis?.failure_probability is undefined or null

\* --------------------------------------------------------- program constants
CriticalThreshold == 70         \* part_000:405
WarningThreshold  == 40         \* part_000:406

VARIABLES
  \* Dashboard
  phoneNumber,        \* phone text field ('' is 0)
  prediction,         \* id of the PredictionResult held, NoPrediction if null
  contributors,       \* prediction.degradation_contributors.length
  loading,
  error,              \* "" when null, else which message
  activeTab,
  aiInsights,         \* Dashboard copy: [text, for]; "for" is provenance only
  pdfUploadStatus,
  pdfUploadTriggered, \* the useRef guard
  emailSending,
  emailSent,
  smsStatus,
  \* calls in flight (closures)
  predictReqs,        \* {[id, phone]}: handleAnalyze awaiting predictVehicleHealth
  smsReqs,            \* {[pred, phone]}: sendSmsAlert awaiting sendAlert
  jobs,               \* {[stage, pred, ins]}: uploadPDFToCloud closures
  emailReq,           \* handleSendEmail awaiting sendReportEmail
  fetches,            \* {[for, live]}: fetchAIInsights awaiting getAIInsights
  chatReq,            \* initializeChat awaiting initializeChatbot
  \* DegradationContributors
  dcInsights,         \* local aiInsights text, 0 if null
  loadingInsights,
  insightsError,
  \* Chatbot
  isOpen,
  isInitializing,
  isInitialized,
  \* counters and history
  nAnalyses,          \* Run Analysis clicks so far; also the id of the request
  uploadCalls,        \* [pred -> number of uploadPDFToCloudinary invocations]
  generatedDocs,      \* [pred -> number of report documents generated]
  smsCalls,           \* [pred -> number of sendAlert invocations]
  emailSuccesses,     \* [pred -> number of successful sendReportEmail calls]
  \* sendSmsAlert arguments and results (severity classification)
  kpiFailureProb,     \* predictionData.kpis?.failure_probability, or Missing
  alertFailureProb,   \* failureProb passed to sendAlert, NotSent before the call
  alertSeverity,      \* severity passed to sendAlert, "" before the call
  \* parseInsights arguments and results
  insightsStr,        \* the insight text, a sequence of tokens
  insightCards,       \* what DegradationContributors last parsed from it
  plainCards,         \* what the text parsed to before a fence was put around it
  pdfCards,           \* what MaintenanceReportPDF last parsed from it
  shown,              \* which branch of the insight render chain is shown
  \* NearbyWorkshops
  nwMounted,          \* the component is rendered (results shown, tab 1)
  nwLoading,
  nwError,            \* "" when null, else the message
  userLocation,       \* NoPosition when null, else the position
  serviceCenters,     \* the list shown, a sequence of centre ids
  hasInitialized,
  geoReqs,            \* {[live]}: getCurrentPosition calls awaiting a callback
  centerReqs,         \* {[pos, live]}: getServiceCenters calls in flight
  geoErr,             \* err.code given to the error callback of the last
                      \* location request of this instance, "" if none
  \* Chatbot conversation
  messages,           \* sequence of [role, content]
  inputValue,         \* text field, a sequence of characters
  isSending,
  sendReqs,           \* {[id, message]}: handleSend awaiting sendChatMessage
  nSends,             \* sendChatMessage calls so far; also the id of the call
  chatSession         \* arguments of the last initializeChatbot call that
                      \* succeeded: what the chat service answers about

dashVars  == <<phoneNumber, prediction, contributors, loading, error, activeTab,
               aiInsights, pdfUploadStatus, pdfUploadTriggered, emailSending,
               emailSent, smsStatus>>
reqVars   == <<predictReqs, smsReqs, jobs, emailReq, fetches, chatReq>>
dcVars    == <<dcInsights, loadingInsights, insightsError>>
chatVars  == <<isOpen, isInitializing, isInitialized>>
histVars  == <<nAnalyses, uploadCalls, generatedDocs, smsCalls, emailSuccesses>>
sevVars   == <<kpiFailureProb, alertFailureProb, alertSeverity>>
parseVars == <<insightsStr, insightCards, plainCards, pdfCards, shown>>
nwVars    == <<nwMounted, nwLoading, nwError, userLocation, serviceCenters,
               hasInitialized, geoReqs, centerReqs, geoErr>>
talkVars  == <<messages, inputValue, isSending, sendReqs, nSends, chatSession>>
pureVars  == <<sevVars, parseVars, nwVars, talkVars>>
vars == <<dashVars, reqVars, dcVars, chatVars, histVars, pureVars>>

PredIds == 1..(MaxAnalyses + 1)      \* ids of predict requests

\* part_001:611-616  useState initial values of NearbyWorkshops
WorkshopsFresh ==
  [loading |-> FALSE, error |-> "", userLocation |-> NoPosition,
   serviceCenters |-> <<>>, hasInitialized |-> FALSE]

\* Dashboard starts without a prediction, so NearbyWorkshops is not rendered.
InitWorkshops ==
  /\ nwMounted = FALSE
  /\ nwLoading = WorkshopsFresh.loading
  /\ nwError = WorkshopsFresh.error
  /\ userLocation = WorkshopsFresh.userLocation
  /\ serviceCenters = WorkshopsFresh.serviceCenters
  /\ hasInitialized = WorkshopsFresh.hasInitialized
  /\ geoReqs = {}
  /\ centerReqs = {}
  /\ geoErr = ""

\* part_002:483-485  useState initial values; no chat session exists.
InitTalk ==
  /\ messages = <<>>
  /\ inputValue = <<>>
  /\ isSending = FALSE
  /\ sendReqs = {}
  /\ nSends = 0
  /\ chatSession = NoChatReq

InitComponents ==
  /\ InitWorkshops
  /\ InitTalk
  /\ phoneNumber = 0
  /\ prediction = NoPrediction
  /\ contributors = 0
  /\ loading = FALSE
  /\ error = ""
  /\ activeTab = 0
  /\ aiInsights = NoInsights
  /\ pdfUploadStatus = IdleUpload
  /\ pdfUploadTriggered = FALSE
  /\ emailSending = FALSE
  /\ emailSent = FALSE
  /\ smsStatus = SmsClosed
  /\ predictReqs = {}
  /\ smsReqs = {}
  /\ jobs = {}
  /\ emailReq = NoEmailReq
  /\ fetches = {}
  /\ chatReq = NoChatReq
  /\ dcInsights = 0
  /\ loadingInsights = FALSE
  /\ insightsError = FALSE
  /\ isOpen = FALSE
  /\ isInitializing = FALSE
  /\ isInitialized = FALSE
  /\ nAnalyses = 0
  /\ uploadCalls = [p \in PredIds |-> 0]
  /\ generatedDocs = [p \in PredIds |-> 0]
  /\ smsCalls = [p \in PredIds |-> 0]
  /\ emailSuccesses = [p \in PredIds |-> 0]

\* No sendSmsAlert argument is being followed.
SeverityIdle ==
  /\ kpiFailureProb = Missing
  /\ alertFailureProb = Missing
  /\ alertSeverity = ""

\* No insight text is being followed.
ParseIdle ==
  /\ insightsStr = <<>>
  /\ insightCards = <<>>
  /\ plainCards = <<>>
  /\ pdfCards = <<>>
  /\ shown = ""

Init == InitComponents /\ SeverityIdle /\ ParseIdle

\* ------------------------------------------------------- derived render state
\* part_000:877  {prediction && !loading && ( ...results... )}
ResultsShown == prediction # NoPrediction /\ ~loading

\* part_000:1072-1107 and :81  DegradationContributors is rendered inside
\* TabPanel index 0, which renders its children only when value === index
ChildMounted == ResultsShown /\ activeTab = 0

\* Mutant of ChildShows: the cards are tested before the error.
ChildShows_CardsBeforeError ==
  IF loadingInsights THEN "loading"
  ELSE IF dcInsights # 0 THEN "insights"
  ELSE IF insightsError THEN "error"
  ELSE "empty"

\* DegradationContributors.jsx:292-388: what the insight panel shows; the
\* cards or the raw text ("insights") come after the spinner and the error.
ChildShows ==
  IF loadingInsights THEN "loading"
  ELSE IF insightsError THEN "error"
  ELSE IF dcInsights # 0 THEN "insights"
  ELSE "empty"

\* Mutant of IsReady: the upload status is left out of the isReady prop.
IsReady_PredictionOnly(status, pred) == pred # NoPrediction

\* part_000:1126  isReady={pdfUploadStatus.uploaded && prediction !== null}
IsReady(status, pred) == status.uploaded /\ pred # NoPrediction

\* ------------------------------------------------------------------ helpers
\* Mutant of Orphaned: responses to an unmounted instance are still applied.
Orphaned_StillLive(fs) == fs

\* In-flight fetches of an unmounted DegradationContributors instance keep
\* running, but their setState calls no longer reach a mounted component.
Orphaned(fs) == {[f EXCEPT !.live = FALSE] : f \in fs}

\* Mutant of MountChild: the auto-fetch effect is missing.
MountChild_NoAutoFetch(pred, contribs) ==
  /\ dcInsights' = 0
  /\ insightsError' = FALSE
  /\ loadingInsights' = FALSE
  /\ fetches' = {[f EXCEPT !.live = FALSE] : f \in fetches}

\* DegradationContributors mounts: useState initial values (lines 32-34) and
\* the auto-fetch effect (lines 125-129) calling fetchAIInsights (103-110).
MountChild(pred, contribs) ==
  /\ dcInsights' = 0
  /\ insightsError' = FALSE
  /\ IF contribs > 0
       THEN /\ loadingInsights' = TRUE
            /\ fetches' = Orphaned(fetches) \cup {[for |-> pred, live |-> TRUE]}
       ELSE /\ loadingInsights' = FALSE
            /\ fetches' = Orphaned(fetches)

\* DegradationContributors unmounts: its state is dropped.
UnmountChild ==
  /\ dcInsights' = 0
  /\ insightsError' = FALSE
  /\ loadingInsights' = FALSE
  /\ fetches' = Orphaned(fetches)

\* Chatbot init effect (part_002:507-511) followed by the synchronous start of
\* initializeChat (513-516).  ran: a dependency changed in this render; the
\* other parameters are the props and state of that render.
ChatInitCondition(open, status, pred) ==
  open /\ IsReady(status, pred) /\ ~isInitialized /\ ~isInitializing

ChatInitEffect(ran, open, status, pred) ==
  IF ran /\ ChatInitCondition(open, status, pred)
    THEN /\ isInitializing' = TRUE
         /\ chatReq' = [pred |-> pred, url |-> status.url]
    ELSE UNCHANGED <<isInitializing, chatReq>>

\* Dashboard upload effect, part_000:315-355: the guard of line 317 and the
\* synchronous prefix (318-324) that starts report generation.
UploadCondition(ins, pred) ==
  ins # NoInsights /\ pred # NoPrediction /\ ~pdfUploadTriggered

NewJob(ins, pred) ==
  [stage |-> "generating", pred |-> pred, ins |-> ins]

\* ------------------------------------------------------------------ actions
\* part_000:390-392
HandlePhoneChange(v) ==
  /\ v # phoneNumber
  /\ phoneNumber' = v
  /\ UNCHANGED <<prediction, contributors, loading, error, activeTab, aiInsights,
                 pdfUploadStatus, pdfUploadTriggered, emailSending, emailSent,
                 smsStatus, reqVars, dcVars, chatVars, histVars,
                 pureVars>>

\* part_000:394-396 (also the Snackbar's autoHideDuration)
HandleCloseSmsStatus ==
  /\ smsStatus.open
  /\ smsStatus' = [smsStatus EXCEPT !.open = FALSE]
  /\ UNCHANGED <<phoneNumber, prediction, contributors, loading, error, activeTab,
                 aiInsights, pdfUploadStatus, pdfUploadTriggered, emailSending,
                 emailSent, reqVars, dcVars, chatVars, histVars,
                 pureVars>>

\* part_000:369-371; the Tabs are part of the results view (877).
HandleTabChange(t) ==
  /\ ResultsShown
  /\ t # activeTab
  /\ activeTab' = t
  /\ IF t = 0 THEN MountChild(prediction, contributors) ELSE UnmountChild
  /\ UNCHANGED <<phoneNumber, prediction, contributors, loading, error, aiInsights,
                 pdfUploadStatus, pdfUploadTriggered, emailSending, emailSent,
                 smsStatus, predictReqs, smsReqs, jobs, emailReq, chatReq, chatVars,
                 nAnalyses, uploadCalls, generatedDocs, smsCalls, emailSuccesses,
                 pureVars>>

\* Mutant of HandleAnalyzeUpTo: the button is not disabled while loading.
HandleAnalyzeUpTo_NotDisabled(max) ==
  /\ nAnalyses < max
  /\ loading' = TRUE
  /\ error' = ""
  /\ nAnalyses' = nAnalyses + 1
  /\ predictReqs' = predictReqs \cup {[id |-> nAnalyses + 1, phone |-> phoneNumber]}
  /\ UnmountChild
  /\ UNCHANGED <<phoneNumber, prediction, contributors, activeTab, aiInsights,
                 pdfUploadStatus, pdfUploadTriggered, emailSending, emailSent,
                 smsStatus, smsReqs, jobs, emailReq, chatReq, chatVars,
                 uploadCalls, generatedDocs, smsCalls, emailSuccesses, pureVars>>

\* part_000:484-495 up to the await; the button is disabled while loading (230).
\* The closure keeps the phoneNumber of the render the click happened in.
HandleAnalyzeUpTo(max) ==
  /\ ~loading
  /\ nAnalyses < max
  /\ loading' = TRUE
  /\ error' = ""
  /\ nAnalyses' = nAnalyses + 1
  /\ predictReqs' = predictReqs \cup {[id |-> nAnalyses + 1, phone |-> phoneNumber]}
  /\ UnmountChild
  /\ UNCHANGED <<phoneNumber, prediction, contributors, activeTab, aiInsights,
                 pdfUploadStatus, pdfUploadTriggered, emailSending, emailSent,
                 smsStatus, smsReqs, jobs, emailReq, chatReq, chatVars,
                 uploadCalls, generatedDocs, smsCalls,
                 emailSuccesses,
                 pureVars>>

HandleAnalyze == HandleAnalyzeUpTo(MaxAnalyses)

\* sendSmsAlert up to the await, part_000:399-416
SendSmsAlert(phone, pred) ==
  IF phone # 0 /\ pred # NoPrediction
    THEN /\ smsReqs' = smsReqs \cup {[pred |-> pred, phone |-> phone]}
         /\ smsCalls' = [smsCalls EXCEPT ![pred] = @ + 1]
    ELSE UNCHANGED <<smsReqs, smsCalls>>

\* part_000:501-504: if (phoneNumber) sendSmsAlert(result.data), with the
\* phoneNumber of the closure; r.id identifies result.data.
AutoSendSms(r) ==
  IF r.phone # 0 THEN SendSmsAlert(r.phone, r.id)
                 ELSE UNCHANGED <<smsReqs, smsCalls>>

\* part_000:497-504 and 511-513, then the render with the new prediction:
\* DegradationContributors mounts, the Chatbot effect sees the new prediction
\* with the upload status of before, the upload effect (315-355) runs, then the
\* reset effect (358-361).
PredictSuccess(r, c) ==
  /\ r \in predictReqs
  /\ predictReqs' = predictReqs \ {r}
  /\ prediction' = r.id
  /\ contributors' = c
  /\ activeTab' = 0
  /\ loading' = FALSE
  /\ AutoSendSms(r)
  /\ MountChild(r.id, c)
  /\ ChatInitEffect(TRUE, isOpen, pdfUploadStatus, r.id)
  /\ IF UploadCondition(aiInsights, r.id)
       THEN jobs' = jobs \cup {NewJob(aiInsights, r.id)}
       ELSE UNCHANGED jobs
  /\ pdfUploadTriggered' = FALSE
  /\ pdfUploadStatus' = IdleUpload
  /\ UNCHANGED <<phoneNumber, error, aiInsights, emailSending, emailSent, smsStatus,
                 emailReq, isOpen, isInitialized, nAnalyses, uploadCalls, generatedDocs, emailSuccesses,
                 pureVars>>

\* Mutant of PredictFailure: a failed analysis drops the prediction held.
PredictFailure_ClearsPrediction(r, msg) ==
  /\ r \in predictReqs
  /\ predictReqs' = predictReqs \ {r}
  /\ error' = msg
  /\ loading' = FALSE
  /\ prediction' = NoPrediction
  /\ UnmountChild
  /\ UNCHANGED <<phoneNumber, contributors, activeTab, aiInsights,
                 pdfUploadStatus, pdfUploadTriggered, emailSending, emailSent,
                 smsStatus, smsReqs, jobs, emailReq, chatReq, chatVars, nAnalyses,
                 uploadCalls, generatedDocs, smsCalls, emailSuccesses, pureVars>>

\* Mutant of PredictFailure: loading is cleared on the success path only.
PredictFailure_KeepsLoading(r, msg) ==
  /\ r \in predictReqs
  /\ predictReqs' = predictReqs \ {r}
  /\ error' = msg
  /\ UNCHANGED <<phoneNumber, prediction, contributors, loading, activeTab, aiInsights,
                 pdfUploadStatus, pdfUploadTriggered, emailSending, emailSent,
                 smsStatus, smsReqs, jobs, emailReq, fetches, chatReq, dcVars,
                 chatVars, histVars, pureVars>>

\* part_000:505-513: result.success false (msg "failed") or the call rejects
\* (msg "rejected").  The results view, hidden while loading, is rendered again
\* when a prediction is held, so DegradationContributors mounts again.
PredictFailure(r, msg) ==
  /\ r \in predictReqs
  /\ predictReqs' = predictReqs \ {r}
  /\ error' = msg
  /\ loading' = FALSE
  /\ IF prediction # NoPrediction /\ activeTab = 0
       THEN MountChild(prediction, contributors)
       ELSE UnmountChild
  /\ UNCHANGED <<phoneNumber, prediction, contributors, activeTab, aiInsights,
                 pdfUploadStatus, pdfUploadTriggered, emailSending, emailSent,
                 smsStatus, smsReqs, jobs, emailReq, chatReq, chatVars, nAnalyses,
                 uploadCalls, generatedDocs, smsCalls,
                 emailSuccesses,
                 pureVars>>

\* part_000:418-438
SmsComplete(r, ok) ==
  /\ r \in smsReqs
  /\ smsReqs' = smsReqs \ {r}
  /\ smsStatus' = [open |-> TRUE, success |-> ok,
                   message |-> IF ok THEN "Alert sent" ELSE "Failed to send alert"]
  /\ UNCHANGED <<phoneNumber, prediction, contributors, loading, error, activeTab,
                 aiInsights, pdfUploadStatus, pdfUploadTriggered, emailSending,
                 emailSent, predictReqs, jobs, emailReq, fetches, chatReq, dcVars,
                 chatVars, histVars,
                 pureVars>>

\* Refresh button, DegradationContributors.jsx:262-269, calling fetchAIInsights
\* (103-110).  The component renders nothing without contributors (135-137).
RefreshInsights ==
  /\ ChildMounted
  /\ contributors > 0
  /\ ~loadingInsights
  /\ fetches' = fetches \cup {[for |-> prediction, live |-> TRUE]}
  /\ loadingInsights' = TRUE
  /\ insightsError' = FALSE
  /\ UNCHANGED <<dashVars, predictReqs, smsReqs, jobs, emailReq, chatReq, dcInsights,
                 chatVars, nAnalyses, uploadCalls, generatedDocs, smsCalls,
                 emailSuccesses,
                 pureVars>>

\* fetchAIInsights after the await, success branch:
\* DegradationContributors.jsx:111-112 and 119-121
FetchSuccessLocal(f, t) ==
  /\ fetches' = fetches \ {f}
  /\ IF f.live
       THEN /\ dcInsights' = t
            /\ loadingInsights' = FALSE
            /\ insightsError' = insightsError
       ELSE UNCHANGED dcVars

GetAIInsightsSuccess(f, t) ==
  /\ f \in fetches
  /\ FetchSuccessLocal(f, t)
  /\ UNCHANGED <<dashVars, predictReqs, smsReqs, jobs, emailReq, chatReq, chatVars,
                 histVars,
                 pureVars>>

\* fetchAIInsights after the await, result without success or a rejection:
\* DegradationContributors.jsx:113-121
GetAIInsightsFailure(f) ==
  /\ f \in fetches
  /\ fetches' = fetches \ {f}
  /\ IF f.live
       THEN /\ insightsError' = TRUE
            /\ loadingInsights' = FALSE
            /\ dcInsights' = dcInsights
       ELSE UNCHANGED dcVars
  /\ UNCHANGED <<dashVars, predictReqs, smsReqs, jobs, emailReq, chatReq, chatVars,
                 histVars,
                 pureVars>>

\* part_000:364-366 handleAIInsightsUpdate(insights), then the render and the
\* upload effect part_000:315-355 (aiInsights is one of its dependencies).
\* Setting a state to an equal string does not render again.
HandleAIInsightsUpdate(t, p) ==
  /\ aiInsights' = [text |-> t, for |-> p]
  /\ IF t # aiInsights.text /\ UploadCondition([text |-> t, for |-> p], prediction)
       THEN /\ pdfUploadTriggered' = TRUE
            /\ pdfUploadStatus' = [uploading |-> TRUE, uploaded |-> FALSE, url |-> NoUrl]
            /\ jobs' = jobs \cup {NewJob([text |-> t, for |-> p], prediction)}
       ELSE UNCHANGED <<pdfUploadTriggered, pdfUploadStatus, jobs>>

\* A successful fetch whose result the child passes to onInsightsUpdate
\* (part_000:1103).
OnInsightsUpdate(f, t) ==
  /\ f \in fetches
  /\ FetchSuccessLocal(f, t)
  /\ HandleAIInsightsUpdate(t, f.for)
  /\ UNCHANGED <<phoneNumber, prediction, contributors, loading, error, activeTab,
                 emailSending, emailSent, smsStatus, predictReqs, smsReqs, emailReq,
                 chatReq, chatVars, nAnalyses, uploadCalls, generatedDocs,
                 smsCalls, emailSuccesses,
                 pureVars>>

\* part_000:324-334: pdf(pdfDoc).toBlob() resolves, the blob is read, and
\* uploadPDFToCloudinary is invoked.
GenerateDone(j) ==
  /\ j \in jobs
  /\ j.stage = "generating"
  /\ jobs' = (jobs \ {j}) \cup {[j EXCEPT !.stage = "uploading"]}
  /\ generatedDocs' = [generatedDocs EXCEPT ![j.pred] = @ + 1]
  /\ uploadCalls' = [uploadCalls EXCEPT ![j.pred] = @ + 1]
  /\ UNCHANGED <<dashVars, predictReqs, smsReqs, emailReq, fetches, chatReq, dcVars,
                 chatVars, nAnalyses, smsCalls,
                 emailSuccesses,
                 pureVars>>

\* Mutant of GenerateFail: the catch block goes on to the upload.
GenerateFail_StillUploads(j) ==
  /\ j \in jobs
  /\ j.stage = "generating"
  /\ jobs' = (jobs \ {j}) \cup {[j EXCEPT !.stage = "uploading"]}
  /\ uploadCalls' = [uploadCalls EXCEPT ![j.pred] = @ + 1]
  /\ UNCHANGED <<dashVars, predictReqs, smsReqs, emailReq, fetches, chatReq, dcVars,
                 chatVars, nAnalyses, generatedDocs, smsCalls, emailSuccesses,
                 pureVars>>

\* part_000:347-350: report generation throws.
GenerateFail(j) ==
  /\ j \in jobs
  /\ j.stage = "generating"
  /\ jobs' = jobs \ {j}
  /\ pdfUploadStatus' = IdleUpload
  /\ UNCHANGED <<phoneNumber, prediction, contributors, loading, error, activeTab,
                 aiInsights, pdfUploadTriggered, emailSending, emailSent, smsStatus,
                 predictReqs, smsReqs, emailReq, fetches, chatReq, dcVars, chatVars,
                 histVars,
                 pureVars>>

\* part_000:335-337, then the render: isReady may turn true, which runs the
\* Chatbot init effect.
UploadSuccess(j) ==
  /\ j \in jobs
  /\ j.stage = "uploading"
  /\ jobs' = jobs \ {j}
  /\ pdfUploadStatus' = [uploading |-> FALSE, uploaded |-> TRUE,
                         url |-> [pred |-> j.pred, insFor |-> j.ins.for]]
  /\ ChatInitEffect(~IsReady(pdfUploadStatus, prediction), isOpen,
                    pdfUploadStatus', prediction)
  /\ UNCHANGED <<phoneNumber, prediction, contributors, loading, error, activeTab,
                 aiInsights, pdfUploadTriggered, emailSending, emailSent, smsStatus,
                 predictReqs, smsReqs, emailReq, fetches, dcVars, isOpen,
                 isInitialized, nAnalyses, uploadCalls, generatedDocs, smsCalls, emailSuccesses,
                 pureVars>>

\* Mutant of UploadFailure: the status is left as it was.
UploadFailure_KeepsStatus(j) ==
  /\ j \in jobs
  /\ j.stage = "uploading"
  /\ jobs' = jobs \ {j}
  /\ UNCHANGED <<dashVars, predictReqs, smsReqs, emailReq, fetches, chatReq, dcVars,
                 chatVars, histVars, pureVars>>

\* part_000:338-345: result.success false, or the upload rejects.
UploadFailure(j) ==
  /\ j \in jobs
  /\ j.stage = "uploading"
  /\ jobs' = jobs \ {j}
  /\ pdfUploadStatus' = IdleUpload
  /\ UNCHANGED <<phoneNumber, prediction, contributors, loading, error, activeTab,
                 aiInsights, pdfUploadTriggered, emailSending, emailSent, smsStatus,
                 predictReqs, smsReqs, emailReq, fetches, chatReq, dcVars, chatVars,
                 histVars,
                 pureVars>>

\* Mutant of EmailTriggerAccepted: the button is not disabled after a send.
EmailTriggerAccepted_NotDisabled ==
  /\ ResultsShown
  /\ pdfUploadStatus.uploaded
  /\ pdfUploadStatus.url # NoUrl

\* Mutant of EmailTriggerAccepted: the button is shown without an upload and
\* the handler does not test the URL.
EmailTriggerAccepted_NoUploadCheck ==
  /\ ResultsShown
  /\ ~(emailSending \/ emailSent)

\* The Email button: rendered at part_000:962 inside the results view (877),
\* disabled at 969; and the guard of handleSendEmail, part_000:444-447.
EmailTriggerAccepted ==
  /\ ResultsShown
  /\ pdfUploadStatus.uploaded
  /\ ~(emailSending \/ emailSent)
  /\ pdfUploadStatus.url # NoUrl

\* part_000:442-456 up to the await
HandleSendEmail ==
  /\ EmailTriggerAccepted
  /\ emailSending' = TRUE
  /\ emailReq' = [pred |-> prediction, url |-> pdfUploadStatus.url]
  /\ UNCHANGED <<phoneNumber, prediction, contributors, loading, error, activeTab,
                 aiInsights, pdfUploadStatus, pdfUploadTriggered, emailSent,
                 smsStatus, predictReqs, smsReqs, jobs, fetches, chatReq, dcVars,
                 chatVars, histVars,
                 pureVars>>

\* Mutant of SendReportEmailComplete: emailSending is cleared on success only.
SendReportEmailComplete_KeepsSending(ok) ==
  /\ emailReq # NoEmailReq
  /\ emailReq' = NoEmailReq
  /\ emailSending' = ~ok
  /\ emailSent' = (emailSent \/ ok)
  /\ smsStatus' = [open |-> TRUE, success |-> ok,
                   message |-> IF ok THEN "Report sent" ELSE "Failed to send email"]
  /\ emailSuccesses' = IF ok THEN [emailSuccesses EXCEPT ![emailReq.pred] = @ + 1]
                             ELSE emailSuccesses
  /\ UNCHANGED <<phoneNumber, prediction, contributors, loading, error, activeTab,
                 aiInsights, pdfUploadStatus, pdfUploadTriggered, predictReqs,
                 smsReqs, jobs, fetches, chatReq, dcVars, chatVars, nAnalyses,
                 uploadCalls, generatedDocs, smsCalls, pureVars>>

\* Mutant of SendReportEmailComplete: emailSent is set whatever the result.
SendReportEmailComplete_AlwaysSent(ok) ==
  /\ emailReq # NoEmailReq
  /\ emailReq' = NoEmailReq
  /\ emailSending' = FALSE
  /\ emailSent' = TRUE
  /\ smsStatus' = [open |-> TRUE, success |-> ok,
                   message |-> IF ok THEN "Report sent" ELSE "Failed to send email"]
  /\ emailSuccesses' = IF ok THEN [emailSuccesses EXCEPT ![emailReq.pred] = @ + 1]
                             ELSE emailSuccesses
  /\ UNCHANGED <<phoneNumber, prediction, contributors, loading, error, activeTab,
                 aiInsights, pdfUploadStatus, pdfUploadTriggered, predictReqs,
                 smsReqs, jobs, fetches, chatReq, dcVars, chatVars, nAnalyses,
                 uploadCalls, generatedDocs, smsCalls, pureVars>>

\* part_000:458-481
SendReportEmailComplete(ok) ==
  /\ emailReq # NoEmailReq
  /\ emailReq' = NoEmailReq
  /\ emailSending' = FALSE
  /\ emailSent' = (emailSent \/ ok)
  /\ smsStatus' = [open |-> TRUE, success |-> ok,
                   message |-> IF ok THEN "Report sent" ELSE "Failed to send email"]
  /\ emailSuccesses' = IF ok THEN [emailSuccesses EXCEPT ![emailReq.pred] = @ + 1]
                             ELSE emailSuccesses
  /\ UNCHANGED <<phoneNumber, prediction, contributors, loading, error, activeTab,
                 aiInsights, pdfUploadStatus, pdfUploadTriggered, predictReqs,
                 smsReqs, jobs, fetches, chatReq, dcVars, chatVars, nAnalyses,
                 uploadCalls, generatedDocs, smsCalls,
                 pureVars>>

\* part_002:574 handleToggle; the Chatbot renders nothing unless isReady (576).
\* isOpen is a dependency of the init effect (507-511).
HandleToggle ==
  /\ IsReady(pdfUploadStatus, prediction)
  /\ isOpen' = ~isOpen
  /\ ChatInitEffect(TRUE, ~isOpen, pdfUploadStatus, prediction)
  /\ UNCHANGED <<dashVars, predictReqs, smsReqs, jobs, emailReq, fetches, dcVars,
                 isInitialized, nAnalyses, uploadCalls, generatedDocs, smsCalls, emailSuccesses,
                 pureVars>>

\* part_002:517-536: initializeChatbot returns success, returns without
\* success, or rejects.
InitializeChatComplete(ok) ==
  /\ chatReq # NoChatReq
  /\ chatReq' = NoChatReq
  /\ isInitializing' = FALSE
  /\ isInitialized' = (isInitialized \/ ok)
  /\ UNCHANGED <<dashVars, predictReqs, smsReqs, jobs, emailReq, fetches, dcVars,
                 isOpen, histVars,
                 pureVars>>

\* ------------------------------------------------------------ specifications
\* The components as wired in the source: DegradationContributors keeps the
\* fetched insights to itself, so Dashboard.aiInsights stays null and the
\* upload, email and chat actions are never enabled.
Next ==
  \/ \E v \in Phones : HandlePhoneChange(v)
  \/ HandleCloseSmsStatus
  \/ \E t \in {0, 1} : HandleTabChange(t)
  \/ HandleAnalyze
  \/ \E r \in predictReqs, c \in {0, 1} : PredictSuccess(r, c)
  \/ \E r \in predictReqs, msg \in {"failed", "rejected"} : PredictFailure(r, msg)
  \/ \E r \in smsReqs, ok \in BOOLEAN : SmsComplete(r, ok)
  \/ RefreshInsights
  \/ \E f \in fetches, t \in Texts : GetAIInsightsSuccess(f, t)
  \/ \E f \in fetches : GetAIInsightsFailure(f)

Spec == Init /\ [][Next]_vars

\* The report pipeline of Dashboard with a child that passes every fetched
\* insight text to onInsightsUpdate.  The phone field, the SMS alert, the
\* snackbar and the tabs are left to Spec: they write phoneNumber, smsReqs,
\* smsCalls, smsStatus and activeTab, which no action below reads, and a tab
\* switch remounts the child exactly as an analysis does.
Pipeline(max) ==
  \/ HandleAnalyzeUpTo(max)
  \/ \E r \in predictReqs, c \in {0, 1} : PredictSuccess(r, c)
  \/ \E r \in predictReqs, msg \in {"failed", "rejected"} : PredictFailure(r, msg)
  \/ RefreshInsights
  \/ \E f \in fetches : GetAIInsightsFailure(f)
  \/ \E f \in fetches, t \in Texts : OnInsightsUpdate(f, t)
  \/ \E j \in jobs : GenerateDone(j)
  \/ \E j \in jobs : GenerateFail(j)
  \/ \E j \in jobs : UploadSuccess(j)
  \/ \E j \in jobs : UploadFailure(j)

NextDelivered ==
  \/ Pipeline(MaxAnalyses)
  \/ HandleSendEmail
  \/ \E ok \in BOOLEAN : SendReportEmailComplete(ok)
  \/ HandleToggle
  \/ \E ok \in BOOLEAN : InitializeChatComplete(ok)

SpecDelivered == Init /\ [][NextDelivered]_vars

\* The pipeline alone, with one more analysis.
NextPipeline == Pipeline(MaxAnalyses + 1)

SpecPipeline == Init /\ [][NextPipeline]_vars

\* The pipeline alone.
NextUpload == Pipeline(MaxAnalyses)

SpecUpload == Init /\ [][NextUpload]_vars

\* Analyses that succeed, with the SMS alert, the upload and the email send and
\* their failures.
NextNotify ==
  \/ \E v \in Phones : HandlePhoneChange(v)
  \/ HandleAnalyze
  \/ \E r \in predictReqs : PredictSuccess(r, 1)
  \/ \E f \in fetches, t \in Texts : OnInsightsUpdate(f, t)
  \/ \E j \in jobs : GenerateDone(j)
  \/ \E j \in jobs : UploadSuccess(j)
  \/ \E r \in smsReqs, ok \in BOOLEAN : SmsComplete(r, ok)
  \/ HandleSendEmail
  \/ \E ok \in BOOLEAN : SendReportEmailComplete(ok)

SpecNotify == Init /\ [][NextNotify]_vars

\* Every collaborator call of Dashboard (predictVehicleHealth, sendAlert,
\* report generation, uploadPDFToCloudinary, sendReportEmail) with its
\* successes and its failures, for one insight text.
NextCalls ==
  \/ \E v \in Phones : HandlePhoneChange(v)
  \/ HandleAnalyze
  \/ \E r \in predictReqs : PredictSuccess(r, 1)
  \/ \E r \in predictReqs, msg \in {"failed", "rejected"} : PredictFailure(r, msg)
  \/ \E f \in fetches : OnInsightsUpdate(f, 1)
  \/ \E j \in jobs : GenerateDone(j)
  \/ \E j \in jobs : GenerateFail(j)
  \/ \E j \in jobs : UploadSuccess(j)
  \/ \E j \in jobs : UploadFailure(j)
  \/ \E r \in smsReqs, ok \in BOOLEAN : SmsComplete(r, ok)
  \/ HandleSendEmail
  \/ \E ok \in BOOLEAN : SendReportEmailComplete(ok)

SpecCalls == Init /\ [][NextCalls]_vars

\* ------------------------------------------------- severity classification
\* part_000:403  predictionData.kpis?.failure_probability || 0
FailureProbOf(kpi) == IF kpi = Missing \/ kpi = 0 THEN 0 ELSE kpi

\* Mutant of Severity: the comparisons are strict.
Severity_Strict(failureProb) ==
  IF failureProb > CriticalThreshold THEN "critical"
  ELSE IF failureProb > WarningThreshold THEN "warning"
  ELSE "normal"

\* part_000:404-406
Severity(failureProb) ==
  IF failureProb >= CriticalThreshold THEN "critical"
  ELSE IF failureProb >= WarningThreshold THEN "warning"
  ELSE "normal"

\* sendSmsAlert, part_000:402-416: the arguments of the sendAlert call for a
\* prediction whose kpis carry kpiFailureProb.
SendAlertCall ==
  /\ alertSeverity = ""
  /\ alertFailureProb' = FailureProbOf(kpiFailureProb)
  /\ alertSeverity' = Severity(FailureProbOf(kpiFailureProb))
  /\ UNCHANGED <<dashVars, reqVars, dcVars, chatVars, histVars, kpiFailureProb,
                 parseVars, nwVars, talkVars>>

InitSeverity ==
  /\ InitComponents
  /\ ParseIdle
  /\ kpiFailureProb \in (0..MaxFailureProb) \cup {Missing}
  /\ alertFailureProb = Missing
  /\ alertSeverity = ""

NextSeverity == SendAlertCall

SpecSeverity == InitSeverity /\ [][NextSeverity]_vars

\* ------------------------------------------------------------ parseInsights
\* An insight text is a sequence of tokens:
\*   "["  "]"  ","   themselves
\*   "O"  an object literal {...} without back-ticks (a card)
\*   "Q"  a double quote
\*   "F"  three back-ticks
\*   "j"  the word json
\*   "_"  a space,  "N"  a line feed
Alphabet == {"[", "]", ",", "O", "Q", "F", "j", "_"}
Ws == {"_", "N"}
Null == <<"null">>

SeqsUpTo(n) == UNION {[1..k -> Alphabet] : k \in 0..n}

\* jsonStr.includes('```json'), jsonStr.includes('```')
IncludesFenceJson(s) == \E i \in 1..(Len(s) - 1) : s[i] = "F" /\ s[i + 1] = "j"
IncludesFence(s) == \E i \in 1..Len(s) : s[i] = "F"

\* jsonStr.replace(/```json\n?/g, '')
RECURSIVE RemoveFenceJson(_)
RemoveFenceJson(s) ==
  IF s = <<>> THEN <<>>
  ELSE IF Len(s) >= 2 /\ s[1] = "F" /\ s[2] = "j"
    THEN IF Len(s) >= 3 /\ s[3] = "N"
           THEN RemoveFenceJson(SubSeq(s, 4, Len(s)))
           ELSE RemoveFenceJson(SubSeq(s, 3, Len(s)))
    ELSE <<s[1]>> \o RemoveFenceJson(Tail(s))

\* jsonStr.replace(/```\n?/g, '')
RECURSIVE RemoveFence(_)
RemoveFence(s) ==
  IF s = <<>> THEN <<>>
  ELSE IF s[1] = "F"
    THEN IF Len(s) >= 2 /\ s[2] = "N"
           THEN RemoveFence(SubSeq(s, 3, Len(s)))
           ELSE RemoveFence(Tail(s))
    ELSE <<s[1]>> \o RemoveFence(Tail(s))

\* Mutant of StripFences: only fences tagged json are removed.
StripFences_TaggedOnly(s) ==
  IF IncludesFenceJson(s) THEN RemoveFence(RemoveFenceJson(s)) ELSE s

\* DegradationContributors.jsx:84-89 (part_002:283-288)
StripFences(s) ==
  IF IncludesFenceJson(s) THEN RemoveFence(RemoveFenceJson(s))
  ELSE IF IncludesFence(s) THEN RemoveFence(s)
  ELSE s

\* String.prototype.trim
RECURSIVE TrimStart(_)
TrimStart(s) == IF s # <<>> /\ s[1] \in Ws THEN TrimStart(Tail(s)) ELSE s

RECURSIVE TrimEnd(_)
TrimEnd(s) ==
  IF s # <<>> /\ s[Len(s)] \in Ws THEN TrimEnd(SubSeq(s, 1, Len(s) - 1)) ELSE s

Trim(s) == TrimEnd(TrimStart(s))

\* JSON.parse over the tokens.  A result is [ok, isArray, canon, pos]: canon is
\* the value written without white space, pos the index after the value.
Fail == [ok |-> FALSE, isArray |-> FALSE, canon |-> <<>>, pos |-> 0]

RECURSIVE SkipWs(_, _)
SkipWs(s, i) == IF i <= Len(s) /\ s[i] \in Ws THEN SkipWs(s, i + 1) ELSE i

ParseString(s, i) ==
  LET closers == {k \in (i + 1)..Len(s) : s[k] = "Q"}
  IN IF closers = {} THEN Fail
     ELSE LET e == CHOOSE k \in closers : \A m \in closers : k <= m
          IN IF \E k \in (i + 1)..(e - 1) : s[k] = "N" THEN Fail
             ELSE [ok |-> TRUE, isArray |-> FALSE, canon |-> SubSeq(s, i, e),
                   pos |-> e + 1]

RECURSIVE ParseValue(_, _)
RECURSIVE ParseElements(_, _, _)
ParseValue(s, i) ==
  IF i > Len(s) THEN Fail
  ELSE IF s[i] = "O"
    THEN [ok |-> TRUE, isArray |-> FALSE, canon |-> <<"O">>, pos |-> i + 1]
  ELSE IF s[i] = "Q" THEN ParseString(s, i)
  ELSE IF s[i] = "["
    THEN LET k == SkipWs(s, i + 1)
         IN IF k <= Len(s) /\ s[k] = "]"
              THEN [ok |-> TRUE, isArray |-> TRUE, canon |-> <<"[", "]">>,
                    pos |-> k + 1]
              ELSE ParseElements(s, k, <<"[">>)
  ELSE Fail

ParseElements(s, k, acc) ==
  LET v == ParseValue(s, k)
  IN IF ~v.ok THEN Fail
     ELSE LET m == SkipWs(s, v.pos)
          IN IF m > Len(s) THEN Fail
             ELSE IF s[m] = "]"
               THEN [ok |-> TRUE, isArray |-> TRUE,
                     canon |-> acc \o v.canon \o <<"]">>, pos |-> m + 1]
             ELSE IF s[m] = ","
               THEN ParseElements(s, SkipWs(s, m + 1), acc \o v.canon \o <<",">>)
             ELSE Fail

JSONParse(s) ==
  LET v == ParseValue(s, SkipWs(s, 1))
  IN IF v.ok /\ SkipWs(s, v.pos) = Len(s) + 1 THEN v ELSE Fail

\* Mutant of parseInsights: whatever JSON.parse returns is returned.
parseInsights_NoArrayCheck(str) ==
  LET parsed == JSONParse(Trim(StripFences(str)))
  IN IF parsed.ok THEN parsed.canon ELSE Null

\* DegradationContributors.jsx:79-100: the card list, or Null when JSON.parse
\* throws (caught at 96-99) or the value is not an array (95).
parseInsights(str) ==
  LET parsed == JSONParse(Trim(StripFences(str)))
  IN IF parsed.ok /\ parsed.isArray THEN parsed.canon ELSE Null

\* Mutant of parseInsightsPDF: the branch for untagged fences is missing.
parseInsightsPDF_TaggedOnly(str) ==
  IF str = <<>> THEN Null
  ELSE LET jsonStr == IF IncludesFenceJson(str)
                        THEN RemoveFence(RemoveFenceJson(str))
                        ELSE str
           parsed == JSONParse(Trim(jsonStr))
       IN IF parsed.ok /\ parsed.isArray THEN parsed.canon ELSE Null

\* part_002:273-299, the copy used by MaintenanceReportPDF: an early return
\* for a falsy argument (275), then its own fence removal (283-288), trim
\* (291), JSON.parse and array test (293-294), null in the catch (295-298).
parseInsightsPDF(str) ==
  IF str = <<>> THEN Null
  ELSE LET jsonStr == IF IncludesFenceJson(str)
                        THEN RemoveFence(RemoveFenceJson(str))
                        ELSE IF IncludesFence(str) THEN RemoveFence(str)
                        ELSE str
           parsed == JSONParse(Trim(jsonStr))
       IN IF parsed.ok /\ parsed.isArray THEN parsed.canon ELSE Null

\* DegradationContributors.jsx:140 and the render chain 292-388, once loading
\* has ended without an error.
InsightCardsOf(text) == IF text # <<>> THEN parseInsights(text) ELSE Null

ShownFor(text) ==
  LET cards == InsightCardsOf(text)
  IN IF cards # Null /\ cards # <<"[", "]">> THEN "cards"
     ELSE IF text # <<>> THEN "raw"
     ELSE "empty"

RenderInsights ==
  /\ shown = ""
  /\ insightCards' = InsightCardsOf(insightsStr)
  /\ pdfCards' = parseInsightsPDF(insightsStr)
  /\ shown' = ShownFor(insightsStr)
  /\ UNCHANGED <<dashVars, reqVars, dcVars, chatVars, histVars, sevVars,
                 insightsStr, plainCards, nwVars, talkVars>>

\* The insight service answers with the text inside a code fence.
FenceOpens ==
  {lead \o <<"F">> \o tag \o sep :
     lead \in {<<>>, <<"_">>, <<"N">>}, tag \in {<<>>, <<"j">>},
     sep \in {<<>>, <<"N">>, <<"_">>}}

FenceCloses ==
  {sep \o <<"F">> \o trail :
     sep \in {<<>>, <<"N">>}, trail \in {<<>>, <<"N">>, <<"_">>}}

FenceResponse(open, close) ==
  /\ shown = ""
  /\ plainCards = <<>>
  /\ plainCards' = parseInsights(insightsStr)
  /\ insightsStr' = open \o insightsStr \o close
  /\ UNCHANGED <<dashVars, reqVars, dcVars, chatVars, histVars, sevVars,
                 insightCards, pdfCards, shown, nwVars, talkVars>>

\* JSON-array texts: what JSON.parse accepts as an array.
ArrayTexts ==
  {t \in {<<"[">> \o b \o <<"]">> : b \in SeqsUpTo(MaxBody)} :
     JSONParse(t).isArray}

InitFence ==
  /\ InitComponents
  /\ SeverityIdle
  /\ insightsStr \in ArrayTexts
  /\ insightCards = <<>>
  /\ plainCards = <<>>
  /\ pdfCards = <<>>
  /\ shown = ""

NextFence ==
  \/ \E open \in FenceOpens, close \in FenceCloses : FenceResponse(open, close)
  \/ RenderInsights

SpecFence == InitFence /\ [][NextFence]_vars

\* Raw texts of any shape.
InitParse ==
  /\ InitComponents
  /\ SeverityIdle
  /\ insightsStr \in SeqsUpTo(MaxRaw) \ {<<>>}
  /\ insightCards = <<>>
  /\ plainCards = <<>>
  /\ pdfCards = <<>>
  /\ shown = ""

NextParse == RenderInsights

SpecParse == InitParse /\ [][NextParse]_vars

\* ---------------------------------------------------------- NearbyWorkshops
\* part_001:606-1170.  The component is rendered inside TabPanel index 1
\* (part_000:1110-1112), which renders its children only while that tab is
\* selected and the results are shown; it is modelled on its own, with a
\* parent that mounts and unmounts it.
Positions == {1, 2}                          \* positions the browser may report
CenterLists == {<<>>, <<1>>, <<1, 2>>}       \* response.service_centers
NoList == <<Missing>>                        \* the response has no such field
GeoErrors == {"PermissionDenied", "PositionUnavailable", "Timeout", "Unknown"}

\* Mutant of GeoMessage: a timeout is reported as an unavailable position.
GeoMessage_TimeoutAsUnavailable(code) ==
  CASE code = "PermissionDenied" ->
         "Location permission denied. Please enable location access in your browser settings."
    [] code = "PositionUnavailable" ->
         "Location information unavailable. Please try again."
    [] code = "Timeout" ->
         "Location information unavailable. Please try again."
    [] OTHER ->
         "An error occurred while getting your location."

\* part_001:672-685  switch (err.code)
GeoMessage(code) ==
  CASE code = "PermissionDenied" ->
         "Location permission denied. Please enable location access in your browser settings."
    [] code = "PositionUnavailable" ->
         "Location information unavailable. Please try again."
    [] code = "Timeout" ->
         "Location request timed out. Please try again."
    [] OTHER ->
         "An error occurred while getting your location."

\* Callbacks of an unmounted instance still run, but their setState calls no
\* longer reach a mounted component.
OrphanedLookups(rs) == {[r EXCEPT !.live = FALSE] : r \in rs}

MountWorkshops ==
  /\ ~nwMounted
  /\ nwMounted' = TRUE
  /\ UNCHANGED <<dashVars, reqVars, dcVars, chatVars, histVars, sevVars,
                 talkVars, parseVars, nwLoading, nwError, userLocation, serviceCenters,
                 hasInitialized, geoReqs, centerReqs, geoErr>>

UnmountWorkshops ==
  /\ nwMounted
  /\ nwMounted' = FALSE
  /\ nwLoading' = WorkshopsFresh.loading
  /\ nwError' = WorkshopsFresh.error
  /\ userLocation' = WorkshopsFresh.userLocation
  /\ serviceCenters' = WorkshopsFresh.serviceCenters
  /\ hasInitialized' = WorkshopsFresh.hasInitialized
  /\ geoReqs' = OrphanedLookups(geoReqs)
  /\ centerReqs' = OrphanedLookups(centerReqs)
  /\ geoErr' = ""
  /\ UNCHANGED <<dashVars, reqVars, dcVars, chatVars, histVars, sevVars,
                 talkVars, parseVars>>

\* Mutant of GetCurrentLocation: a position already held is used again.
GetCurrentLocation_CachedPosition(supported) ==
  /\ geoErr' = ""
  /\ IF ~supported
       THEN /\ nwError' = "Geolocation is not supported by your browser"
            /\ nwLoading' = FALSE
            /\ UNCHANGED <<geoReqs, centerReqs>>
       ELSE /\ nwLoading' = TRUE
            /\ nwError' = ""
            /\ IF userLocation # NoPosition
                 THEN /\ centerReqs' = centerReqs \cup
                                         {[pos |-> userLocation, live |-> TRUE]}
                      /\ UNCHANGED geoReqs
                 ELSE /\ geoReqs' = geoReqs \cup {[live |-> TRUE]}
                      /\ UNCHANGED centerReqs
  /\ UNCHANGED <<userLocation, serviceCenters>>

\* part_001:641-690 getCurrentLocation up to the getCurrentPosition call
\* (maximumAge: 0, line 688).  supported: navigator.geolocation exists.
GetCurrentLocation(supported) ==
  /\ geoErr' = ""
  /\ IF ~supported
       THEN /\ nwError' = "Geolocation is not supported by your browser"
            /\ nwLoading' = FALSE
            /\ UNCHANGED geoReqs
       ELSE /\ nwLoading' = TRUE
            /\ nwError' = ""
            /\ geoReqs' = geoReqs \cup {[live |-> TRUE]}
  /\ UNCHANGED <<userLocation, serviceCenters, centerReqs>>

\* part_001:717  showInitialPrompt
ShowInitialPrompt ==
  ~nwLoading /\ userLocation = NoPosition /\ nwError = "" /\ ~hasInitialized

\* part_001:720-723  handleFindWorkshops, the button of the initial prompt (762)
HandleFindWorkshops(supported) ==
  /\ nwMounted
  /\ ShowInitialPrompt
  /\ hasInitialized' = TRUE
  /\ GetCurrentLocation(supported)
  /\ UNCHANGED <<dashVars, reqVars, dcVars, chatVars, histVars, sevVars,
                 talkVars, parseVars, nwMounted>>

\* part_001:798-803  Retry button of the error alert
RetryLookup(supported) ==
  /\ nwMounted
  /\ nwError # ""
  /\ ~nwLoading
  /\ GetCurrentLocation(supported)
  /\ UNCHANGED <<dashVars, reqVars, dcVars, chatVars, histVars, sevVars,
                 talkVars, parseVars, nwMounted, hasInitialized>>

\* part_001:813 and 847  Refresh button of the results header
RefreshLookup(supported) ==
  /\ nwMounted
  /\ ~nwLoading
  /\ userLocation # NoPosition
  /\ GetCurrentLocation(supported)
  /\ UNCHANGED <<dashVars, reqVars, dcVars, chatVars, histVars, sevVars,
                 talkVars, parseVars, nwMounted, hasInitialized>>

\* part_001:651-656  success callback up to the await of getServiceCenters
PositionSuccess(g, p) ==
  /\ g \in geoReqs
  /\ geoReqs' = geoReqs \ {g}
  /\ centerReqs' = centerReqs \cup {[pos |-> p, live |-> g.live]}
  /\ userLocation' = IF g.live THEN p ELSE userLocation
  /\ UNCHANGED <<dashVars, reqVars, dcVars, chatVars, histVars, sevVars,
                 talkVars, parseVars, nwMounted, nwLoading, nwError, serviceCenters,
                 hasInitialized, geoErr>>

\* part_001:670-687  error callback
PositionError(g, code) ==
  /\ g \in geoReqs
  /\ geoReqs' = geoReqs \ {g}
  /\ IF g.live
       THEN /\ nwError' = GeoMessage(code)
            /\ nwLoading' = FALSE
            /\ geoErr' = code
       ELSE UNCHANGED <<nwError, nwLoading, geoErr>>
  /\ UNCHANGED <<dashVars, reqVars, dcVars, chatVars, histVars, sevVars,
                 talkVars, parseVars, nwMounted, userLocation, serviceCenters,
                 hasInitialized, centerReqs>>

\* part_001:657-668  getServiceCenters returns.
CentersResponse(c, success, list) ==
  /\ c \in centerReqs
  /\ centerReqs' = centerReqs \ {c}
  /\ IF c.live
       THEN /\ nwLoading' = FALSE
            /\ IF success
                 THEN /\ serviceCenters' = IF list = NoList THEN <<>> ELSE list
                      /\ UNCHANGED nwError
                 ELSE /\ nwError' = "Failed to fetch nearby workshops"
                      /\ UNCHANGED serviceCenters
       ELSE UNCHANGED <<nwLoading, nwError, serviceCenters>>
  /\ UNCHANGED <<dashVars, reqVars, dcVars, chatVars, histVars, sevVars,
                 talkVars, parseVars, nwMounted, userLocation, hasInitialized, geoReqs,
                 geoErr>>

\* part_001:663-666 and api.js:79-88  getServiceCenters rejects; api.js always
\* throws an Error with a message.
CentersRejected(c, message) ==
  /\ c \in centerReqs
  /\ centerReqs' = centerReqs \ {c}
  /\ IF c.live
       THEN /\ nwLoading' = FALSE
            /\ nwError' = IF message # "" THEN message
                          ELSE "Failed to load nearby workshops"
       ELSE UNCHANGED <<nwLoading, nwError>>
  /\ UNCHANGED <<dashVars, reqVars, dcVars, chatVars, histVars, sevVars,
                 talkVars, parseVars, nwMounted, userLocation, serviceCenters,
                 hasInitialized, geoReqs, geoErr>>

NextWorkshops ==
  \/ MountWorkshops
  \/ UnmountWorkshops
  \/ \E supported \in BOOLEAN : HandleFindWorkshops(supported)
  \/ \E supported \in BOOLEAN : RetryLookup(supported)
  \/ \E supported \in BOOLEAN : RefreshLookup(supported)
  \/ \E g \in geoReqs, p \in Positions : PositionSuccess(g, p)
  \/ \E g \in geoReqs, code \in GeoErrors : PositionError(g, code)
  \/ \E c \in centerReqs, list \in CenterLists \cup {NoList} :
       CentersResponse(c, TRUE, list)
  \/ \E c \in centerReqs : CentersResponse(c, FALSE, NoList)
  \/ \E c \in centerReqs,
        message \in {"Failed to load service centers", "Service unavailable"} :
       CentersRejected(c, message)

SpecWorkshops == Init /\ [][NextWorkshops]_vars

\* ------------------------------------------------------ Chatbot conversation
\* Texts the user may type: "Q" is a visible character, "_" a blank.
ChatInputs == {<<>>, <<"_">>, <<"Q">>, <<"_", "Q">>, <<"Q", "_">>}

UserMessage(text) == [role |-> "user", content |-> text]
BotMessage(text) == [role |-> "bot", content |-> <<text>>]

\* part_002:518-534  the first message after initializeChatbot
InitGreeting(outcome) ==
  CASE outcome = "success" -> BotMessage("greeting")
    [] outcome = "failed" -> BotMessage("trouble loading the analysis data")
    [] OTHER -> BotMessage("encountered an issue")

\* part_002:551-562  the reply appended after sendChatMessage
BotReply(outcome) ==
  CASE outcome = "success" -> BotMessage("response")
    [] outcome = "failed" ->
         BotMessage("Sorry, I had trouble processing that. Please try again.")
    [] OTHER -> BotMessage("Sorry, I encountered an error. Please try again.")

ChatOutcomes == {"success", "failed", "rejected"}

\* part_002:576-582  the panel is rendered when isReady and shown when isOpen
ChatPanelShown == IsReady(pdfUploadStatus, prediction) /\ isOpen

\* part_002:513-537 after the await, with the message list and the session
\* of the chat service; InitializeChatComplete is this handler without them.
InitializeChatDone(outcome) ==
  /\ chatReq # NoChatReq
  /\ chatReq' = NoChatReq
  /\ isInitializing' = FALSE
  /\ isInitialized' = (isInitialized \/ outcome = "success")
  /\ messages' = <<InitGreeting(outcome)>>
  /\ chatSession' = IF outcome = "success" THEN chatReq ELSE chatSession
  /\ UNCHANGED <<dashVars, predictReqs, smsReqs, jobs, emailReq, fetches, dcVars,
                 isOpen, histVars, sevVars, parseVars, nwVars, inputValue,
                 isSending, sendReqs, nSends>>

\* part_002:727  onChange of the text field, disabled={isSending || isInitializing}
HandleInputChange(text) ==
  /\ ChatPanelShown
  /\ ~isSending /\ ~isInitializing
  /\ text # inputValue
  /\ inputValue' = text
  /\ UNCHANGED <<dashVars, reqVars, dcVars, chatVars, histVars, sevVars,
                 parseVars, nwVars, messages, isSending, sendReqs, nSends,
                 chatSession>>

\* Mutant of HandleSend: the input is tested and sent without trim().
HandleSend_NoTrim ==
  /\ ChatPanelShown
  /\ ~isInitializing
  /\ nSends < MaxSends
  /\ ~(inputValue = <<>> \/ isSending)
  /\ inputValue' = <<>>
  /\ messages' = Append(messages, UserMessage(inputValue))
  /\ isSending' = TRUE
  /\ nSends' = nSends + 1
  /\ sendReqs' = sendReqs \cup {[id |-> nSends + 1, message |-> inputValue]}
  /\ UNCHANGED <<dashVars, reqVars, dcVars, chatVars, histVars, sevVars,
                 parseVars, nwVars, chatSession>>

\* part_002:539-549 handleSend up to the await, from the Send button (739-740)
\* or the Enter key (567-572, 728-729); both are disabled while sending or
\* initialising.
HandleSend ==
  /\ ChatPanelShown
  /\ ~isInitializing
  /\ nSends < MaxSends
  /\ ~(Trim(inputValue) = <<>> \/ isSending)
  /\ inputValue' = <<>>
  /\ messages' = Append(messages, UserMessage(Trim(inputValue)))
  /\ isSending' = TRUE
  /\ nSends' = nSends + 1
  /\ sendReqs' = sendReqs \cup {[id |-> nSends + 1, message |-> Trim(inputValue)]}
  /\ UNCHANGED <<dashVars, reqVars, dcVars, chatVars, histVars, sevVars,
                 parseVars, nwVars, chatSession>>

\* part_002:550-565 after the await
SendChatComplete(q, outcome) ==
  /\ q \in sendReqs
  /\ sendReqs' = sendReqs \ {q}
  /\ messages' = Append(messages, BotReply(outcome))
  /\ isSending' = FALSE
  /\ UNCHANGED <<dashVars, reqVars, dcVars, chatVars, histVars, sevVars,
                 parseVars, nwVars, inputValue, nSends, chatSession>>

\* Analyses that succeed and are uploaded, with the Chatbot and its
\* initialisation.
NextChat ==
  \/ HandleAnalyze
  \/ \E r \in predictReqs : PredictSuccess(r, 1)
  \/ \E f \in fetches, t \in Texts : OnInsightsUpdate(f, t)
  \/ \E j \in jobs : GenerateDone(j)
  \/ \E j \in jobs : UploadSuccess(j)
  \/ HandleToggle
  \/ \E outcome \in ChatOutcomes : InitializeChatDone(outcome)

SpecChat == Init /\ [][NextChat]_vars

\* The same for one insight text, with the conversation.
NextSend ==
  \/ HandleAnalyze
  \/ \E r \in predictReqs : PredictSuccess(r, 1)
  \/ \E f \in fetches : OnInsightsUpdate(f, 1)
  \/ \E j \in jobs : GenerateDone(j)
  \/ \E j \in jobs : UploadSuccess(j)
  \/ HandleToggle
  \/ \E outcome \in ChatOutcomes : InitializeChatDone(outcome)
  \/ \E text \in ChatInputs : HandleInputChange(text)
  \/ HandleSend
  \/ \E q \in sendReqs, outcome \in ChatOutcomes : SendChatComplete(q, outcome)

SpecSend == Init /\ [][NextSend]_vars

\* ------------------------------------------------------------------ claims

C2_InsightsTriggerUpload ==
  (ChildMounted /\ dcInsights # 0) => pdfUploadTriggered

C4_EmailAtMostOnce ==
  /\ \A p \in PredIds : emailSuccesses[p] <= 1
  /\ emailSent => (emailReq = NoEmailReq /\ ~emailSending /\ ~ENABLED HandleSendEmail)

C4_Witness ==
  /\ emailSent
  /\ ResultsShown
  /\ pdfUploadStatus.uploaded
  /\ emailSuccesses[prediction] = 1

\* C5: sendReportEmail is invoked only from a state in which an upload has
\* succeeded and its URL is stored, and with that URL; every other step leaves
\* the email request and flags alone unless it completes a request.
C5_EmailOnlyWhenUploaded ==
  [][ (emailReq = NoEmailReq /\ emailReq' # NoEmailReq)
        => /\ pdfUploadStatus.uploaded
           /\ pdfUploadStatus.url # NoUrl
           /\ emailReq'.url = pdfUploadStatus.url ]_vars

C5_Witness ==
  emailReq # NoEmailReq /\ emailSending

\* C6: initializeChatbot is invoked only with a PredictionResult and the URL
\* of a succeeded upload, and the chat is opened or initialised only after an
\* upload was made; never before the first prediction, during an upload or
\* after a failed one.
C6_ChatOnlyWhenUploaded ==
  /\ chatReq # NoChatReq => (chatReq.pred # NoPrediction /\ chatReq.url # NoUrl)
  /\ ENABLED HandleToggle =>
       (pdfUploadStatus.uploaded /\ ~pdfUploadStatus.uploading
          /\ prediction # NoPrediction)
  /\ (isOpen \/ isInitializing \/ isInitialized) =>
       \E p \in PredIds : uploadCalls[p] > 0

C6_Witness ==
  /\ chatReq # NoChatReq
  /\ isInitializing
  /\ isOpen

\* C7: uploadPDFToCloudinary is invoked only for a PredictionResult that has
\* existed and once per report document generated from it; a failed
\* generation invokes no upload.
C7_UploadOnlyAfterGeneration ==
  \A p \in PredIds :
    /\ uploadCalls[p] <= generatedDocs[p]
    /\ uploadCalls[p] > 0 => p <= prediction

C7_Witness ==
  \E p \in PredIds : uploadCalls[p] > 0 /\ generatedDocs[p] > 0

C10_SmsIffPhoneSupplied ==
  [][ IF prediction' # prediction
        THEN smsCalls'[prediction'] = (IF phoneNumber # 0 THEN 1 ELSE 0)
        ELSE smsCalls' = smsCalls ]_vars

\* C11: the severity passed to sendAlert is 'critical' from 70 up, 'warning'
\* from 40 to below 70 and 'normal' below 40; a missing failure probability is
\* sent as 0 and classified 'normal'.
C11_SeverityThresholds ==
  alertSeverity # "" =>
    /\ kpiFailureProb = Missing =>
          (alertFailureProb = 0 /\ alertSeverity = "normal")
    /\ kpiFailureProb # Missing =>
          /\ alertFailureProb = kpiFailureProb
          /\ kpiFailureProb >= 70 => alertSeverity = "critical"
          /\ (kpiFailureProb >= 40 /\ kpiFailureProb < 70) => alertSeverity = "warning"
          /\ kpiFailureProb < 40 => alertSeverity = "normal"

C11_Witness ==
  kpiFailureProb = 70 /\ alertSeverity = "critical"

\* C12: a step that completes a prediction request with a failure ends loading,
\* sets an error message, keeps the PredictionResult held before the request
\* and starts no SMS, no upload and no insight fetch.
C12_FailedAnalysisKeepsNothing ==
  [][ (predictReqs' # predictReqs /\ predictReqs' \subseteq predictReqs /\ error' # "")
        => /\ ~loading'
           /\ prediction' = prediction
           /\ contributors' = contributors
           /\ smsCalls' = smsCalls /\ smsReqs' = smsReqs
           /\ uploadCalls' = uploadCalls /\ jobs' = jobs
           /\ {f \in fetches' : f.live} \subseteq fetches ]_vars

\* C13: at most one outstanding fetch belongs to the mounted component, the
\* one issued last; the late response of an earlier-issued fetch leaves the
\* applied insights, the loading flag and the error as they are.
C13_LastIssuedWins ==
  /\ [](Cardinality({f \in fetches : f.live}) <= 1)
  /\ [][ \A f \in fetches :
            (~f.live /\ f \notin fetches') => UNCHANGED dcVars ]_vars

C13_Witness ==
  /\ ChildMounted
  /\ dcInsights # 0
  /\ ~loadingInsights
  /\ \E f \in fetches : ~f.live

\* C14: a JSON-array text inside a code fence (with or without the json tag,
\* with white space around it) parses to the card list the text parses to
\* without the fence, in DegradationContributors and in the report.
C14_FencedParsesAsPlain ==
  (plainCards # <<>> /\ shown # "") =>
    /\ insightCards = plainCards
    /\ pdfCards = plainCards

C14_Witness ==
  /\ shown = "cards"
  /\ plainCards # <<>>
  /\ plainCards # Null
  /\ insightCards = plainCards
  /\ IncludesFence(insightsStr)
  /\ ~IncludesFenceJson(insightsStr)

C16_AutoFetchIffContributors ==
  [][ /\ (~ChildMounted /\ ChildMounted' /\ contributors' > 0)
           => /\ [for |-> prediction', live |-> TRUE] \in fetches'
              /\ loadingInsights'
      /\ (\E f \in fetches' : f.live /\ f \notin fetches)
           => (contributors' > 0 /\ prediction' # NoPrediction) ]_vars

C16_Witness ==
  /\ ChildMounted
  /\ contributors > 0
  /\ loadingInsights
  /\ [for |-> prediction, live |-> TRUE] \in fetches

C18_NotificationFailureFrame ==
  [][ /\ (smsReqs' # smsReqs /\ smsReqs' \subseteq smsReqs /\ ~smsStatus'.success)
           => UNCHANGED <<prediction, contributors, loading, error, aiInsights,
                          pdfUploadStatus, pdfUploadTriggered, jobs, uploadCalls,
                          predictReqs, emailSending, emailSent, emailReq,
                          emailSuccesses, smsCalls, phoneNumber>>
      /\ (emailReq # NoEmailReq /\ emailReq' = NoEmailReq /\ ~smsStatus'.success)
           => /\ UNCHANGED <<prediction, contributors, loading, error, aiInsights,
                             pdfUploadStatus, pdfUploadTriggered, jobs, uploadCalls,
                             predictReqs, emailSent, emailSuccesses, smsReqs,
                             smsCalls, phoneNumber>>
              /\ ~emailSending'
              /\ (ResultsShown /\ pdfUploadStatus.uploaded /\ ~emailSent)
                    => EmailTriggerAccepted' ]_vars

C18_Witness ==
  /\ smsStatus.open
  /\ smsStatus.message = "Failed to send email"
  /\ EmailTriggerAccepted
  /\ \E p \in PredIds : smsCalls[p] > 0

\* C19: a step in which report generation or an upload fails leaves the
\* PredictionResult as it is, sets the upload status to not uploading, not
\* uploaded, no URL, and starts no new generation or upload.
C19_UploadFailureResets ==
  [][ \A j \in jobs :
        ( /\ j \notin jobs'
          /\ [j EXCEPT !.stage = "uploading"] \notin jobs'
          /\ ~pdfUploadStatus'.uploaded )
        => /\ prediction' = prediction
           /\ contributors' = contributors
           /\ pdfUploadStatus' = IdleUpload
           /\ jobs' \subseteq jobs
           /\ uploadCalls' = uploadCalls
           /\ generatedDocs' = generatedDocs
           /\ pdfUploadTriggered' = pdfUploadTriggered ]_vars

C19_Witness ==
  /\ prediction # NoPrediction
  /\ pdfUploadStatus = IdleUpload
  /\ pdfUploadTriggered
  /\ jobs = {}
  /\ uploadCalls[prediction] > 0

C21_EmailFailureRetryable ==
  [][ (emailReq # NoEmailReq /\ emailReq' = NoEmailReq /\ ~smsStatus'.success)
        => /\ ~emailSent'
           /\ ~emailSending'
           /\ pdfUploadStatus' = pdfUploadStatus
           /\ prediction' = prediction
           /\ (ResultsShown /\ pdfUploadStatus.uploaded) => (ENABLED HandleSendEmail)' ]_vars

C21_Witness ==
  /\ emailReq # NoEmailReq
  /\ emailSending
  /\ smsStatus.message = "Failed to send email"
  /\ emailReq.pred = prediction

\* C22: a location request of the mounted NearbyWorkshops that ends in the
\* error callback leaves loading false and the message of that error code
\* showing, and issues no getServiceCenters call; while such a message is
\* shown nothing of the lookup is in flight; and the message shown belongs
\* to one error code only, the one that was reported.
C22_GeolocationFailureEndsLookup ==
  /\ [](nwError \in {GeoMessage(k) : k \in GeoErrors}
          => /\ ~nwLoading
             /\ [live |-> TRUE] \notin geoReqs
             /\ \A c \in centerReqs : ~c.live
             /\ \A k \in GeoErrors : nwError = GeoMessage(k) => k = geoErr)
  /\ [][ ([live |-> TRUE] \in geoReqs /\ [live |-> TRUE] \notin geoReqs'
            /\ geoErr' # "")
          => /\ ~nwLoading'
             /\ nwError' # ""
             /\ nwError' = GeoMessage(geoErr')
             /\ centerReqs' = centerReqs ]_vars

C22_Witness ==
  /\ nwMounted
  /\ geoErr = "Timeout"
  /\ nwError = GeoMessage("Timeout")
  /\ userLocation # NoPosition
  /\ serviceCenters # <<>>

\* C23: every accepted lookup request (find, retry, refresh) in a browser
\* with geolocation starts a new getCurrentPosition call and no
\* getServiceCenters call; a getServiceCenters call is issued only by the
\* success callback of a location request, with the position delivered to
\* it (an unmount issues nothing); and the list shown changes only when such
\* a call returns.
C23_LookupRerunsInFull ==
  /\ [][ (nwMounted /\ ~nwLoading /\ nwLoading')
          => /\ [live |-> TRUE] \notin geoReqs
             /\ [live |-> TRUE] \in geoReqs'
             /\ centerReqs' = centerReqs ]_vars
  /\ [][ (nwMounted' \/ ~nwMounted)
          => \A c \in centerReqs' \ centerReqs :
               /\ \E g \in geoReqs \ geoReqs' : g.live = c.live
               /\ c.live => c.pos = userLocation' ]_vars
  /\ [][ (serviceCenters' # serviceCenters /\ nwMounted')
          => \E c \in centerReqs \ centerReqs' : c.live ]_vars

C23_Witness ==
  /\ nwMounted
  /\ serviceCenters # <<>>
  /\ nwLoading
  /\ \E c \in centerReqs : c.live /\ c.pos = userLocation
  /\ \E c \in centerReqs : ~c.live /\ c.pos # userLocation

\* C24: an in-progress flag of Dashboard (loading, emailSending,
\* pdfUploadStatus.uploading) is set only while a call that will clear it is
\* in flight; a failed predict call leaves an error message, loading false
\* and the Run Analysis button enabled; a completed SMS call leaves a notice;
\* a failed email send leaves a failure notice and emailSending false; a
\* failed report generation or upload leaves the status not uploading and
\* not uploaded.
C24_FailuresAreCaught ==
  /\ [](/\ loading => predictReqs # {}
        /\ emailSending => emailReq # NoEmailReq
        /\ pdfUploadStatus.uploading => jobs # {})
  /\ [][ \A r \in predictReqs \ predictReqs' :
           prediction' # r.id
             => /\ error' # ""
                /\ ~loading'
                /\ (nAnalyses < MaxAnalyses => (ENABLED HandleAnalyze)') ]_vars
  /\ [][ (smsReqs' # smsReqs /\ smsReqs' \subseteq smsReqs)
           => smsStatus'.open /\ smsStatus'.message # "" ]_vars
  /\ [][ (emailReq # NoEmailReq /\ emailReq' = NoEmailReq /\ ~emailSent')
           => /\ smsStatus'.open /\ ~smsStatus'.success
              /\ smsStatus'.message # ""
              /\ ~emailSending' ]_vars
  /\ [][ \A j \in jobs \ jobs' :
           ([j EXCEPT !.stage = "uploading"] \notin jobs'
              /\ pdfUploadStatus'.url.pred # j.pred)
             => ~pdfUploadStatus'.uploading /\ ~pdfUploadStatus'.uploaded ]_vars

C24_Witness ==
  /\ error # ""
  /\ ~loading
  /\ prediction # NoPrediction
  /\ smsStatus.message = "Failed to send alert"
  /\ uploadCalls[prediction] > 0
  /\ pdfUploadStatus = IdleUpload
  /\ jobs = {}

\* C25: the prediction held (and the contributors that are part of it)
\* changes only in a step that completes a predict call with success, and
\* becomes the result of that call; every other step leaves it as it is.
C25_PredictionChangesOnlyOnSuccess ==
  [][ (prediction' # prediction \/ contributors' # contributors)
        => \E r \in predictReqs \ predictReqs' :
              /\ prediction' = r.id
              /\ prediction' # prediction
              /\ ~loading' ]_vars

C25_Witness ==
  /\ prediction = 2
  /\ smsCalls[1] > 0
  /\ uploadCalls[1] > 0
  /\ emailSuccesses[1] > 0

\* C26: at most one predictVehicleHealth call is in flight, loading is true
\* exactly while one is, and while loading the Run Analysis button accepts
\* no click.
C26_OnePredictionInFlight ==
  /\ Cardinality(predictReqs) <= 1
  /\ loading <=> (predictReqs # {})
  /\ loading => ~ENABLED HandleAnalyze

C26_Witness ==
  /\ loading
  /\ predictReqs = {[id |-> 2, phone |-> 1]}
  /\ prediction = 1
  /\ fetches # {}

C29_ChatSendsSerialised ==
  /\ [](/\ Cardinality(sendReqs) <= 1
        /\ isSending <=> (sendReqs # {})
        /\ \A q \in sendReqs : q.message # <<>> /\ q.message = Trim(q.message))
  /\ [][ nSends' # nSends
          => /\ ~isSending /\ isSending'
             /\ Trim(inputValue) # <<>>
             /\ sendReqs' = {[id |-> nSends', message |-> Trim(inputValue)]}
             /\ messages' = Append(messages, UserMessage(Trim(inputValue))) ]_vars
  /\ [][ (sendReqs # {} /\ sendReqs' = {})
          => /\ ~isSending'
             /\ \E outcome \in ChatOutcomes :
                  messages' = Append(messages, BotReply(outcome)) ]_vars

C29_Witness ==
  /\ nSends = MaxSends
  /\ ~isSending
  /\ Len(messages) = 5
  /\ messages[2] = UserMessage(<<"Q">>)
  /\ messages[3] = BotReply("rejected")
  /\ messages[4] = UserMessage(<<"Q">>)
  /\ messages[5] = BotReply("success")

\* C30: for every raw insight text, the card list MaintenanceReportPDF parses
\* from it is the card list DegradationContributors parses from it.
C30_ParsersAgree ==
  shown # "" => pdfCards = insightCards

C30_Witness ==
  /\ shown = "cards"
  /\ pdfCards # Null
  /\ pdfCards = insightCards
  /\ IncludesFence(insightsStr)
  /\ plainCards = <<>>

====
